---- MODULE Spec2Model ----
(***************************************************************************)
(* Model of rlpoker/agent.py: the Reservoir and CircularBuffer replay      *)
(* memories and the Agent that owns one of each together with the current  *)
(* Q network, the target Q network and the policy network.                 *)
(***************************************************************************)
EXTENDS Integers, Sequences, FiniteSets, TLC

\* ------------------------------------------------------------------ bounds
\* Largest maxlen a buffer is constructed with.
MaxCap == 2
\* Largest number of append calls made on one buffer in a behaviour.
MaxAppends == 3

\* Largest number of items in one call of append_replay_memory or
\* append_supervised_memory.
MaxList == 2
\* The values a network variable takes, and their number.
ParamValues == {0, 1}
ParamMod == Cardinality(ParamValues)

\* np.random.rand() is a float in [0, 1); a draw is modelled as u / RandDen with
\* u in 0 .. RandDen - 1.  RandDen > MaxCap + 1 keeps both outcomes of the test
\* rand() < maxlen / i possible whenever they are possible for a real draw.
RandDen == MaxCap + 2

\* ------------------------------------------------------------------ inputs
\* Transition dictionaries fed to the replay memory (keys read by train_q_network).
Transitions ==
    { [state |-> 0, action |-> 0, next_state |-> 1, reward |-> 5, terminal |-> TRUE],
      [state |-> 1, action |-> 1, next_state |-> 0, reward |-> 1, terminal |-> FALSE] }

\* State-action dictionaries fed to the supervised memory (keys read by
\* train_policy_network).
StateActionPairs ==
    { [state |-> 0, action |-> 1], [state |-> 1, action |-> 0] }

\* Arguments n of sample(n): negative, zero, and up to one more than any capacity.
SampleSizes == (-1) .. (MaxCap + 1)

VARIABLES
    replay_memory,        \* CircularBuffer: [maxlen, buffer]
    supervised_memory,    \* Reservoir: [maxlen, i, reservoir]
    replay_appended,      \* history kept by CB_Append: the items appended, in order
    supervised_appended,  \* history kept by Res_Append: the items appended, in order
    variables,            \* the graph's global variables: name -> value
    threads,              \* the Reservoir.append calls in flight: thread -> [pc, item, ...]
    last                  \* the last call: [op, arg, err, idx, ret]

vars == <<replay_memory, supervised_memory, replay_appended, supervised_appended,
          variables, threads, last>>

\* ------------------------------------------------------------------ helpers
Min(a, b) == IF a <= b THEN a ELSE b

\* The last k elements of s (all of s when k >= Len(s)).
LastN(s, k) == SubSeq(s, Len(s) - Min(k, Len(s)) + 1, Len(s))

SeqRange(s) == { s[k] : k \in 1 .. Len(s) }

\* The record of a call: operation, argument, error raised ("none" when it
\* returned), the buffer positions (1-based) it drew, and the returned value.
Call(op, arg, err, idx, ret) ==
    [op |-> op, arg |-> arg, err |-> err, idx |-> idx, ret |-> ret]

\* ------------------------------------------------------------ CircularBuffer
\* CircularBuffer.__init__: deque(maxlen=maxlen), initially empty.
CircularBuffer_init(maxlen) == [maxlen |-> maxlen, buffer |-> <<>>]

\* Faulty variant: a full buffer refuses the new item instead of evicting the oldest.
CircularBuffer_append_keep_oldest(cb, item) ==
    IF Len(cb.buffer) >= cb.maxlen THEN cb
    ELSE [cb EXCEPT !.buffer = Append(cb.buffer, item)]

\* Faulty variant: the deque is built without its maxlen, so nothing is evicted.
CircularBuffer_append_unbounded(cb, item) ==
    [cb EXCEPT !.buffer = Append(cb.buffer, item)]

\* deque.append on a deque with a maxlen: the item goes on the right and, when
\* the deque is then longer than maxlen, one item is dropped from the left.
CircularBuffer_append(cb, item) ==
    LET b == Append(cb.buffer, item)
    IN  [cb EXCEPT !.buffer = IF Len(b) > cb.maxlen THEN Tail(b) ELSE b]

\* CircularBuffer.__len__
CircularBuffer_len(cb) == Len(cb.buffer)

\* ------------------------------------------------------------------ sampling
\* What a method call leaves behind: the object after the call, the error it
\* raised ("none" when it returned) and the value it returned.
Outcome(self, err, ret) == [self |-> self, err |-> err, ret |-> ret]

\* Faulty variant: off by one, a request for the whole population is refused.
SampleRaises_strict(len, n) == ~(0 <= n /\ n < len)

\* random.sample(population, n) raises ValueError unless 0 <= n <= len(population).
SampleRaises(len, n) == ~(0 <= n /\ n <= len)

\* Faulty variant: sampling with replacement (random.choices).
SampleSelections_with_replacement(len, n) ==
    IF n <= 0 THEN { <<>> } ELSE [1 .. n -> 1 .. len]

\* The selections random.sample(population, n) can make: n positions of the
\* population, no position taken twice, in any order.
SampleSelections(len, n) ==
    IF n <= 0 THEN { <<>> }
    ELSE { s \in [1 .. n -> 1 .. len] : \A a, b \in 1 .. n : a # b => s[a] # s[b] }

\* The list random.sample returns for a selection of positions.
SampleResult(population, sel) == [k \in 1 .. Len(sel) |-> population[sel[k]]]

\* The selections to enumerate for a call sample(n) on a population of len items.
Selections(len, n) == IF SampleRaises(len, n) THEN { <<>> } ELSE SampleSelections(len, n)

\* Faulty variant: the sampled records are taken out of the buffer.
CircularBuffer_sample_pop(cb, n, sel) ==
    IF SampleRaises(Len(cb.buffer), n)
    THEN Outcome(cb, "ValueError", <<>>)
    ELSE LET keep == SelectSeq([k \in 1 .. Len(cb.buffer) |-> k],
                               LAMBDA k : \A j \in 1 .. Len(sel) : sel[j] # k)
         IN  Outcome([cb EXCEPT !.buffer = [j \in 1 .. Len(keep) |-> cb.buffer[keep[j]]]],
                     "none", SampleResult(cb.buffer, sel))

\* CircularBuffer.sample(n) for the selection sel of random.sample.
CircularBuffer_sample(cb, n, sel) ==
    IF SampleRaises(Len(cb.buffer), n)
    THEN Outcome(cb, "ValueError", <<>>)
    ELSE Outcome(cb, "none", SampleResult(cb.buffer, sel))

\* -------------------------------------------------------------------- Reservoir
\* Reservoir.__init__
Reservoir_init(maxlen) == [maxlen |-> maxlen, i |-> 0, reservoir |-> <<>>]

\* The test np.random.rand() < self.maxlen / self.i for the draw u / RandDen
\* (true division, as in Python 3: u / RandDen < maxlen / i).
Admitted(u, maxlen, i) == u * i < maxlen * RandDen

\* Faulty variant: the fullness test is off by one (<= instead of <).
Reservoir_append_overfill(r, item, u, discard_idx) ==
    LET i == r.i + 1
    IN  IF Len(r.reservoir) <= r.maxlen
        THEN [r EXCEPT !.i = i, !.reservoir = Append(r.reservoir, item)]
        ELSE IF Admitted(u, r.maxlen, i)
             THEN [r EXCEPT !.i = i, !.reservoir[discard_idx + 1] = item]
             ELSE [r EXCEPT !.i = i]

\* Faulty variant: an admitted item evicts the oldest record (append and popleft)
\* instead of overwriting the drawn slot.
Reservoir_append_fifo(r, item, u, discard_idx) ==
    LET i == r.i + 1
    IN  IF Len(r.reservoir) < r.maxlen
        THEN [r EXCEPT !.i = i, !.reservoir = Append(r.reservoir, item)]
        ELSE IF Admitted(u, r.maxlen, i)
             THEN [r EXCEPT !.i = i, !.reservoir = Append(Tail(r.reservoir), item)]
             ELSE [r EXCEPT !.i = i]

\* Faulty variant: the counter is advanced only for the items that are kept.
Reservoir_append_count_kept(r, item, u, discard_idx) ==
    IF Len(r.reservoir) < r.maxlen
    THEN [r EXCEPT !.i = r.i + 1, !.reservoir = Append(r.reservoir, item)]
    ELSE IF Admitted(u, r.maxlen, r.i + 1)
         THEN [r EXCEPT !.i = r.i + 1, !.reservoir[discard_idx + 1] = item]
         ELSE r

\* Reservoir.append for the draws u (rand) and discard_idx (0-based, as returned
\* by np.random.choice(self.maxlen)).
Reservoir_append(r, item, u, discard_idx) ==
    LET i == r.i + 1
    IN  IF Len(r.reservoir) < r.maxlen
        THEN [r EXCEPT !.i = i, !.reservoir = Append(r.reservoir, item)]
        ELSE IF Admitted(u, r.maxlen, i)
             THEN [r EXCEPT !.i = i, !.reservoir[discard_idx + 1] = item]
             ELSE [r EXCEPT !.i = i]

\* The values self.i has when one append call evaluates self.maxlen / self.i,
\* for the reservoir r before the call and r2 after it: line 26 runs only when
\* the test of line 23 fails, and reads the i that line 22 stored.
RatioDenominators(r, r2) ==
    IF Len(r.reservoir) < r.maxlen THEN <<>> ELSE <<r2.i>>

\* Whether Reservoir.append reaches the replacement on line 28 for the draw u.
Reservoir_replaces(r, u) ==
    /\ ~(Len(r.reservoir) < r.maxlen)
    /\ Admitted(u, r.maxlen, r.i + 1)

\* Faulty variant: the last slot is never drawn (randint-style upper bound).
DiscardChoices_short(maxlen) == 0 .. (maxlen - 2)

\* The values np.random.choice(self.maxlen) can return.
DiscardChoices(maxlen) == 0 .. (maxlen - 1)

\* Reservoir.sample(n) for the selection sel of random.sample.
Reservoir_sample(r, n, sel) ==
    IF SampleRaises(Len(r.reservoir), n)
    THEN Outcome(r, "ValueError", <<>>)
    ELSE Outcome(r, "none", SampleResult(r.reservoir, sel))

\* Reservoir.__len__
Reservoir_len(r) == Len(r.reservoir)

\* ------------------------------------------------------------------------ Agent
\* action_dim: the number of output units of every network.
ActionDim == 2

\* input_dim: the width of a state vector.
InputDim == 1

\* The name the Agent is constructed with.
AgentName == "0"

\* tf.variable_scope('agent_{}'.format(name)): the outermost component of the
\* name of everything the constructor creates.
AgentScope == <<"agent_", AgentName>>

\* The three networks, in the order the constructor creates them (lines 74-76).
NetworkScopes == <<"current_q", "target_q", "policy">>

\* The dense layers of one network, in creation order, as tf.layers.dense names
\* them inside a variable scope: num_hidden = 2 hidden layers and the output layer.
DenseLayers == <<"dense", "dense_1", "dense_2">>

\* The variables of one dense layer, in creation order.
LayerVariables == <<"kernel", "bias">>

\* The name of a variable: the path of scopes it was created under.
\* <<AgentScope, "current_q", "dense", "kernel">> stands for
\* 'agent_0/current_q/dense/kernel:0'.
VariableName(net, layer, v) == <<AgentScope, net, layer, v>>

\* The variables create_q_network / create_policy_network make under `scope`.
RECURSIVE Flatten(_)
Flatten(ss) == IF ss = <<>> THEN <<>> ELSE Head(ss) \o Flatten(Tail(ss))

create_network(scope) ==
    Flatten([l \in 1 .. Len(DenseLayers) |->
               [v \in 1 .. Len(LayerVariables) |->
                  VariableName(scope, DenseLayers[l], LayerVariables[v])]])

\* The three networks of an Agent (lines 73-75), by scope.
networks == [scope \in SeqRange(NetworkScopes) |-> create_network(scope)]

NetworkVariables(scope) == networks[scope]

\* The graph's GLOBAL_VARIABLES collection after the three networks were created.
GlobalVariables ==
    Flatten([n \in 1 .. Len(NetworkScopes) |-> NetworkVariables(NetworkScopes[n])])

\* re.match(scope, name): the pattern has to match at the start of the name.
\* For the literal scopes used here that is: scope is a leading part of the path.
ReMatch(scope, name) ==
    /\ Len(scope) <= Len(name)
    /\ SubSeq(name, 1, Len(scope)) = scope

\* tf.get_collection(GLOBAL_VARIABLES, scope=scope): the variables whose name
\* matches scope, in collection order.
GetCollection(scope) == SelectSeq(GlobalVariables, LAMBDA name : ReMatch(scope, name))

\* Lines 81-83: one assign op per pair of zip(target_vars, current_vars).
current_vars == GetCollection(<<"current_q">>)
target_vars == GetCollection(<<"target_q">>)

update_ops ==
    [k \in 1 .. Min(Len(target_vars), Len(current_vars)) |->
       [target |-> target_vars[k], value |-> current_vars[k]]]

\* sess.run(ops) for a list of assign ops: every target gets its source's value.
RunAssigns(ops, store) ==
    [name \in DOMAIN store |->
       IF \E k \in 1 .. Len(ops) : ops[k].target = name
       THEN store[(CHOOSE k \in 1 .. Len(ops) : ops[k].target = name).value]
       ELSE store[name]]

\* Agent.update_target_network
Agent_update_target_network(store) == RunAssigns(update_ops, store)

\* Faulty variant: policy_loss is built on the current Q network's output.
LossNetwork_q_only(loss) == "current_q"

\* The variables an optimizer's minimize(loss) updates: the trainable variables
\* the loss depends on.  q_loss reads the current Q network's output (the target
\* network's output is under stop_gradient); policy_loss reads the policy
\* network's output.
LossNetwork(loss) == IF loss = "q_loss" THEN "current_q" ELSE "policy"

\* Faulty variant: q_loss without stop_gradient on the target network's output,
\* so its gradient also reaches the target network's variables.
TrainedVariables_no_stop_gradient(loss) ==
    IF loss = "q_loss"
    THEN SeqRange(NetworkVariables("current_q")) \cup SeqRange(NetworkVariables("target_q"))
    ELSE SeqRange(NetworkVariables("policy"))

TrainedVariables(loss) == SeqRange(NetworkVariables(LossNetwork(loss)))

\* One gradient-descent step on `loss`: every trained variable moves by the
\* step g (0 when the gradient vanishes), values taken modulo ParamMod.
ApplyGradients(store, loss, g) ==
    LET trained == TrainedVariables(loss)
    IN  [name \in DOMAIN store |->
           IF name \in trained THEN (store[name] + g) % ParamMod ELSE store[name]]

\* The value a network's output tensor takes for an input: determined by the
\* network's variables (by position in the network) and the input.
NetworkOutput(store, scope, input) ==
    LET names == NetworkVariables(scope)
    IN  [params |-> [k \in 1 .. Len(names) |-> store[names[k]]], input |-> input]

\* A numeric reading of output unit i (0-based) of a network's output row: an
\* affine stand-in for the dense layers, with the first layer's kernel and bias
\* as slope and offset.
UnitValue(out, i) == out.params[1] * out.input + out.params[2] + i

\* The output row of a network for one input: action_dim numbers.
OutputRow(out) == [a \in 1 .. ActionDim |-> UnitValue(out, a - 1)]

\* tf.reduce_max(row)
ReduceMax(row) ==
    CHOOSE v \in SeqRange(row) : \A w \in SeqRange(row) : w <= v

\* Line 139: not t, as float32.
not_terminals(d) == IF d.terminal THEN 0 ELSE 1

\* Faulty variant: the bootstrap term is added for terminal transitions too.
next_q_unmasked(store, d) ==
    d.reward + ReduceMax(OutputRow(NetworkOutput(store, "target_q", d.next_state)))

\* Lines 92-93 for one transition of the minibatch.
next_q(store, d) ==
    d.reward + not_terminals(d)
                 * ReduceMax(OutputRow(NetworkOutput(store, "target_q", d.next_state)))

\* Line 90 for one transition: the current Q network's value of the action taken.
q_value(store, d) ==
    OutputRow(NetworkOutput(store, "current_q", d.state))[d.action + 1]

\* What one q_loss evaluation regresses: per transition of the minibatch, the
\* target next_q and the prediction q_value.
QLossTerms(store, minibatch) ==
    [minibatch |-> minibatch,
     next_q |-> [k \in 1 .. Len(minibatch) |-> next_q(store, minibatch[k])],
     q_value |-> [k \in 1 .. Len(minibatch) |-> q_value(store, minibatch[k])]]

\* The values of the variables after the caller ran their initializers; seed
\* gives the value drawn for the variables of each network.
InitialVariables(seed) == [name \in SeqRange(GlobalVariables) |-> seed[name[2]]]

\* Faulty variant: the list is walked from its last item to its first.
RECURSIVE AppendAll_reversed(_, _)
AppendAll_reversed(cb, items) ==
    IF items = <<>> THEN cb
    ELSE AppendAll_reversed(CircularBuffer_append(cb, items[Len(items)]),
                            SubSeq(items, 1, Len(items) - 1))

\* CircularBuffer.append for each item of a list, in list order (lines 102-103).
RECURSIVE AppendAll(_, _)
AppendAll(cb, items) ==
    IF items = <<>> THEN cb
    ELSE AppendAll(CircularBuffer_append(cb, Head(items)), Tail(items))

\* The reservoirs one Reservoir.append(item) can leave, over all its draws.
AppendResults(r, item) ==
    { Reservoir_append(r, item, u, d) :
        u \in 0 .. (RandDen - 1), d \in DiscardChoices(r.maxlen) \cup {0} }

\* Reservoir.append for each item of a list, in list order (lines 106-107): the
\* reservoirs the loop can leave, over the draws of the successive calls.
RECURSIVE OfferAll(_, _)
OfferAll(r, items) ==
    IF items = <<>> THEN { r }
    ELSE UNION { OfferAll(r2, Tail(items)) : r2 \in AppendResults(r, Head(items)) }

\* Lists of at most n elements of S.
SeqsUpTo(S, n) == UNION { [1 .. k -> S] : k \in 0 .. n }

\* ------------------------------------------------------------------- actions
\* CircularBuffer.append(item)
CB_Append ==
    /\ Len(replay_appended) < MaxAppends
    /\ \E item \in Transitions :
        /\ replay_memory' = CircularBuffer_append(replay_memory, item)
        /\ replay_appended' = Append(replay_appended, item)
        /\ last' = Call("CircularBuffer.append", item, "none", <<>>, <<>>)
    /\ UNCHANGED <<threads, supervised_memory, supervised_appended, variables>>

\* CircularBuffer.sample(n)
CB_Sample ==
    /\ \E n \in SampleSizes :
        \E sel \in Selections(CircularBuffer_len(replay_memory), n) :
            LET out == CircularBuffer_sample(replay_memory, n, sel)
            IN  /\ replay_memory' = out.self
                /\ last' = Call("CircularBuffer.sample", n, out.err, sel, out.ret)
    /\ UNCHANGED <<threads, supervised_memory, replay_appended, supervised_appended, variables>>

\* Reservoir.append(item); the call returns nothing, and its record lists under
\* ret the values maxlen / self.i was divided by.
Res_Append ==
    /\ Len(supervised_appended) < MaxAppends
    /\ \E item \in StateActionPairs, u \in 0 .. (RandDen - 1) :
        /\ IF Reservoir_replaces(supervised_memory, u)
           THEN \E d \in DiscardChoices(supervised_memory.maxlen) :
                   /\ supervised_memory' = Reservoir_append(supervised_memory, item, u, d)
                   /\ last' = Call("Reservoir.append", item, "none", <<d + 1>>,
                                   RatioDenominators(supervised_memory, supervised_memory'))
           ELSE /\ supervised_memory' = Reservoir_append(supervised_memory, item, u, 0)
                /\ last' = Call("Reservoir.append", item, "none", <<>>,
                                RatioDenominators(supervised_memory, supervised_memory'))
        /\ supervised_appended' = Append(supervised_appended, item)
    /\ UNCHANGED <<threads, replay_memory, replay_appended, variables>>

\* Reservoir.sample(n)
Res_Sample ==
    /\ \E n \in SampleSizes :
        \E sel \in Selections(Reservoir_len(supervised_memory), n) :
            LET out == Reservoir_sample(supervised_memory, n, sel)
            IN  /\ supervised_memory' = out.self
                /\ last' = Call("Reservoir.sample", n, out.err, sel, out.ret)
    /\ UNCHANGED <<threads, replay_memory, replay_appended, supervised_appended, variables>>

\* Two buffers constructed on their own: each gets every capacity the
\* constructors accept, of 0 .. MaxCap, the two capacities adding up to MaxCap.
InitBuffers ==
    /\ \E maxlen \in 0 .. MaxCap :
          /\ replay_memory = CircularBuffer_init(maxlen)
          /\ supervised_memory = Reservoir_init(MaxCap - maxlen)
    /\ replay_appended = <<>>
    /\ supervised_appended = <<>>
    /\ threads = <<>>
    /\ variables = InitialVariables([n \in SeqRange(NetworkScopes) |-> 0])
    /\ last = Call("__init__", <<>>, "none", <<>>, <<>>)

NextBuffers == CB_Append \/ CB_Sample \/ Res_Append \/ Res_Sample

SpecBuffers == InitBuffers /\ [][NextBuffers]_vars

\* --------------------------------------------------------------- Agent actions
\* Agent.append_replay_memory(transitions)
Append_replay_memory ==
    /\ \E transitions \in SeqsUpTo(Transitions, MaxList) :
        /\ replay_memory' = AppendAll(replay_memory, transitions)
        /\ last' = Call("append_replay_memory", transitions, "none", <<>>, <<>>)
    /\ UNCHANGED <<threads, supervised_memory, replay_appended, supervised_appended, variables>>

\* Agent.append_supervised_memory(state_action_pairs)
Append_supervised_memory ==
    /\ \E pairs \in SeqsUpTo(StateActionPairs, MaxList) :
        /\ supervised_memory.i + Len(pairs) <= MaxAppends
        /\ supervised_memory' \in OfferAll(supervised_memory, pairs)
        /\ last' = Call("append_supervised_memory", pairs, "none", <<>>, <<>>)
    /\ UNCHANGED <<threads, replay_memory, replay_appended, supervised_appended, variables>>

\* Agent.update_target_network(sess)
Update_target_network ==
    /\ variables' = Agent_update_target_network(variables)
    /\ last' = Call("update_target_network", <<>>, "none", <<>>, <<>>)
    /\ UNCHANGED <<threads, replay_memory, supervised_memory, replay_appended, supervised_appended>>

\* Faulty variant: a request larger than the memory is cut down to what the
\* memory holds, so the call trains on a short minibatch instead of raising.
Train_q_network_clamped ==
    /\ \E batch_size \in SampleSizes :
        LET n == Min(batch_size, CircularBuffer_len(replay_memory))
        IN  \E sel \in Selections(CircularBuffer_len(replay_memory), n) :
            LET out == CircularBuffer_sample(replay_memory, n, sel)
            IN  /\ replay_memory' = out.self
                /\ IF out.err # "none" \/ out.ret = <<>>
                   THEN /\ variables' = variables
                        /\ last' = Call("train_q_network", batch_size, "ValueError",
                                         sel, out.ret)
                   ELSE \E g \in 0 .. (ParamMod - 1) :
                        /\ variables' = ApplyGradients(variables, "q_loss", g)
                        /\ last' = Call("train_q_network", batch_size, "none",
                                         sel, QLossTerms(variables, out.ret))
    /\ UNCHANGED <<threads, supervised_memory, replay_appended, supervised_appended>>

\* Agent.train_q_network(sess, batch_size): the sample may raise; an empty
\* minibatch makes np.array([...]) of shape (0,), which sess.run refuses to feed
\* to the [None, input_dim] placeholder; otherwise one gradient step on q_loss.
Train_q_network ==
    /\ \E batch_size \in SampleSizes :
        \E sel \in Selections(CircularBuffer_len(replay_memory), batch_size) :
            LET out == CircularBuffer_sample(replay_memory, batch_size, sel)
            IN  /\ replay_memory' = out.self
                /\ IF out.err # "none" \/ out.ret = <<>>
                   THEN /\ variables' = variables
                        /\ last' = Call("train_q_network", batch_size, "ValueError",
                                         sel, out.ret)
                   ELSE \E g \in 0 .. (ParamMod - 1) :
                        /\ variables' = ApplyGradients(variables, "q_loss", g)
                        /\ last' = Call("train_q_network", batch_size, "none",
                                         sel, QLossTerms(variables, out.ret))
    /\ UNCHANGED <<threads, supervised_memory, replay_appended, supervised_appended>>

\* Agent.train_policy_network(sess, batch_size): as above, on the supervised
\* memory and policy_loss.
Train_policy_network ==
    /\ \E batch_size \in SampleSizes :
        \E sel \in Selections(Reservoir_len(supervised_memory), batch_size) :
            LET out == Reservoir_sample(supervised_memory, batch_size, sel)
            IN  /\ supervised_memory' = out.self
                /\ IF out.err # "none" \/ out.ret = <<>>
                   THEN /\ variables' = variables
                        /\ last' = Call("train_policy_network", batch_size, "ValueError",
                                         sel, out.ret)
                   ELSE \E g \in 0 .. (ParamMod - 1) :
                        /\ variables' = ApplyGradients(variables, "policy_loss", g)
                        /\ last' = Call("train_policy_network", batch_size, "none",
                                         sel, out.ret)
    /\ UNCHANGED <<threads, replay_memory, replay_appended, supervised_appended>>

\* The state batches handed to predict_q / predict_policy: a numpy array with
\* ndim dimensions, rows of `width` numbers, and the state each row encodes.
StateBatches ==
    [ndim : {1, 2}, width : {InputDim, InputDim + 1}, rows : {<<0>>}]
        \cup { [ndim |-> 2, width |-> InputDim, rows |-> <<1>>] }

\* The two assertions of predict_q / predict_policy.
ShapeOk(batch) == batch.ndim = 2 /\ batch.width = InputDim

\* Agent.predict_q(sess, state)
Predict_q ==
    /\ \E batch \in StateBatches :
        last' = IF ShapeOk(batch)
                THEN Call("predict_q", batch, "none", <<>>,
                          [k \in 1 .. Len(batch.rows) |->
                             NetworkOutput(variables, "current_q", batch.rows[k])])
                ELSE Call("predict_q", batch, "AssertionError", <<>>, <<>>)
    /\ UNCHANGED <<threads, replay_memory, supervised_memory, replay_appended,
                   supervised_appended, variables>>

\* Agent.predict_policy(sess, state)
Predict_policy ==
    /\ \E batch \in StateBatches :
        last' = IF ShapeOk(batch)
                THEN Call("predict_policy", batch, "none", <<>>,
                          [k \in 1 .. Len(batch.rows) |->
                             NetworkOutput(variables, "policy", batch.rows[k])])
                ELSE Call("predict_policy", batch, "AssertionError", <<>>, <<>>)
    /\ UNCHANGED <<threads, replay_memory, supervised_memory, replay_appended,
                   supervised_appended, variables>>

\* The i-th number of a network's output row (policy[i] after ravel()).
OutputUnit(out, i) == [out |-> out, unit |-> i]

\* The information-set ids and the state vectors (width and encoded state) that
\* get_strategy is called with.
InfoSets == {"x", "y"}

StateVectors ==
    { [width |-> InputDim, state |-> 0], [width |-> InputDim, state |-> 1],
      [width |-> InputDim + 1, state |-> 0] }

StateDicts == UNION { [keys -> StateVectors] : keys \in SUBSET InfoSets }

\* The orders in which states.items() can hand out the keys of a dict.
Orders(keys) ==
    { o \in [1 .. Cardinality(keys) -> keys] :
        \A a, b \in 1 .. Cardinality(keys) : a # b => o[a] # o[b] }

\* Faulty variant: the strategy is read off the current Q network.
StrategyNetwork_q == "current_q"

\* The network get_strategy queries (through predict_policy).
StrategyNetwork == "policy"

\* Lines 198-203 for the keys still to visit, in iteration order: np.array([state])
\* has two dimensions and the vector's width, so predict_policy's second
\* assertion fails on a vector of the wrong width; otherwise the key gets the
\* dict {i: policy[i]} of the network's output row.
RECURSIVE GetStrategyLoop(_, _, _, _)
GetStrategyLoop(store, states, order, strategy) ==
    IF order = <<>> THEN Outcome(store, "none", <<strategy>>)
    ELSE LET info_set_id == Head(order)
             state == states[info_set_id]
         IN  IF state.width # InputDim
             THEN Outcome(store, "AssertionError", <<>>)
             ELSE LET policy == NetworkOutput(store, StrategyNetwork, state.state)
                      entry == [i \in 0 .. (ActionDim - 1) |-> OutputUnit(policy, i)]
                  IN  GetStrategyLoop(store, states, Tail(order),
                        [k \in DOMAIN strategy \cup {info_set_id} |->
                           IF k = info_set_id THEN entry ELSE strategy[k]])

\* Agent.get_strategy(sess, states), the dict iterated in the given order.
Agent_get_strategy(store, states, order) == GetStrategyLoop(store, states, order, <<>>)

\* Agent.get_strategy(sess, states)
Get_strategy ==
    /\ \E states \in StateDicts :
        \E order \in Orders(DOMAIN states) :
            LET out == Agent_get_strategy(variables, states, order)
            IN  /\ variables' = out.self
                /\ last' = Call("get_strategy", states, out.err, <<>>, out.ret)
    /\ UNCHANGED <<threads, replay_memory, supervised_memory,
                   replay_appended, supervised_appended>>

\* The (max_replay, max_supervised) an Agent is constructed with: each buffer
\* gets every capacity of 0 .. 2, the two capacities differing when positive.
AgentCapacities == { <<0, 0>>, <<1, 2>>, <<2, 1>> }

\* Agent.__init__ followed by the caller's variable initialisation.
Init ==
    /\ \E capacities \in AgentCapacities :
          /\ replay_memory = CircularBuffer_init(capacities[1])
          /\ supervised_memory = Reservoir_init(capacities[2])
    /\ replay_appended = <<>>
    /\ supervised_appended = <<>>
    /\ threads = <<>>
    /\ \E seed \in [SeqRange(NetworkScopes) -> ParamValues] :
          variables = InitialVariables(seed)
    /\ last = Call("__init__", <<>>, "none", <<>>, <<>>)

Next ==
    \/ Append_replay_memory
    \/ Append_supervised_memory
    \/ Predict_q
    \/ Predict_policy
    \/ Update_target_network
    \/ Train_q_network
    \/ Train_policy_network
    \/ Get_strategy

Spec == Init /\ [][Next]_vars

\* ------------------------------------------------- Reservoir.append, interleaved
\* Two threads call Reservoir.append on one reservoir with no lock (the class
\* has none); a thread runs one statement of lines 22-28 at a time.
RaceThreads == {"t1", "t2"}

Idle == [pc |-> "idle", item |-> <<>>, discard_idx |-> 0]

\* The thread is at statement pc of its call, with its local variables.
At(pc, item, discard_idx) == [pc |-> pc, item |-> item, discard_idx |-> discard_idx]

\* A thread enters append(item).
Race_Call ==
    /\ \E t \in RaceThreads, item \in StateActionPairs :
        /\ threads[t].pc = "idle"
        /\ Len(supervised_appended) + Cardinality({ o \in RaceThreads : threads[o].pc = "line22" })
              < MaxAppends
        /\ threads' = [threads EXCEPT ![t] = At("line22", item, 0)]
    /\ UNCHANGED <<supervised_memory, supervised_appended,
                   replay_memory, replay_appended, variables, last>>

\* Line 22: self.i += 1
Race_Increment ==
    /\ \E t \in RaceThreads :
        /\ threads[t].pc = "line22"
        /\ supervised_memory' = [supervised_memory EXCEPT !.i = @ + 1]
        /\ supervised_appended' = Append(supervised_appended, threads[t].item)
        /\ threads' = [threads EXCEPT ![t].pc = "line23"]
    /\ UNCHANGED <<replay_memory, replay_appended, variables, last>>

\* Line 23: if len(self.reservoir) < self.maxlen
Race_Test ==
    /\ \E t \in RaceThreads :
        /\ threads[t].pc = "line23"
        /\ threads' = [threads EXCEPT ![t].pc =
                          IF Len(supervised_memory.reservoir) < supervised_memory.maxlen
                          THEN "line24" ELSE "line26"]
    /\ UNCHANGED <<supervised_memory, supervised_appended,
                   replay_memory, replay_appended, variables, last>>

\* Line 24: self.reservoir.append(item), on a deque without maxlen; the call returns.
Race_Insert ==
    /\ \E t \in RaceThreads :
        /\ threads[t].pc = "line24"
        /\ supervised_memory' =
              [supervised_memory EXCEPT !.reservoir = Append(@, threads[t].item)]
        /\ last' = Call("Reservoir.append", threads[t].item, "none", <<>>, <<>>)
        /\ threads' = [threads EXCEPT ![t] = Idle]
    /\ UNCHANGED <<supervised_appended, replay_memory,
                   replay_appended, variables>>

\* Line 26: if np.random.rand() < self.maxlen / self.i, with the i of this moment;
\* the call returns when the test fails.
Race_Ratio ==
    /\ \E t \in RaceThreads, u \in 0 .. (RandDen - 1) :
        /\ threads[t].pc = "line26"
        /\ IF Admitted(u, supervised_memory.maxlen, supervised_memory.i)
           THEN /\ threads' = [threads EXCEPT ![t].pc = "line27"]
                /\ last' = last
           ELSE /\ threads' = [threads EXCEPT ![t] = Idle]
                /\ last' = Call("Reservoir.append", threads[t].item, "none", <<>>,
                                <<supervised_memory.i>>)
    /\ UNCHANGED <<supervised_memory, supervised_appended,
                   replay_memory, replay_appended, variables>>

\* Line 27: discard_idx = np.random.choice(self.maxlen)
Race_Choose ==
    /\ \E t \in RaceThreads, d \in DiscardChoices(supervised_memory.maxlen) :
        /\ threads[t].pc = "line27"
        /\ threads' = [threads EXCEPT ![t].pc = "line28", ![t].discard_idx = d]
    /\ UNCHANGED <<supervised_memory, supervised_appended,
                   replay_memory, replay_appended, variables, last>>

\* Line 28: self.reservoir[discard_idx] = item; the call returns.
Race_Store ==
    /\ \E t \in RaceThreads :
        /\ threads[t].pc = "line28"
        /\ supervised_memory' =
              [supervised_memory EXCEPT !.reservoir[threads[t].discard_idx + 1] =
                                           threads[t].item]
        /\ last' = Call("Reservoir.append", threads[t].item, "none",
                        <<threads[t].discard_idx + 1>>, <<>>)
        /\ threads' = [threads EXCEPT ![t] = Idle]
    /\ UNCHANGED <<supervised_appended, replay_memory,
                   replay_appended, variables>>

\* One reservoir of any capacity the constructor accepts, shared by the threads.
InitRace ==
    /\ replay_memory = CircularBuffer_init(0)
    /\ \E maxlen \in 0 .. MaxCap : supervised_memory = Reservoir_init(maxlen)
    /\ replay_appended = <<>>
    /\ supervised_appended = <<>>
    /\ threads = [t \in RaceThreads |-> Idle]
    /\ variables = InitialVariables([n \in SeqRange(NetworkScopes) |-> 0])
    /\ last = Call("__init__", <<>>, "none", <<>>, <<>>)

NextRace ==
    \/ Race_Call
    \/ Race_Increment
    \/ Race_Test
    \/ Race_Insert
    \/ Race_Ratio
    \/ Race_Choose
    \/ Race_Store

SpecRace == InitRace /\ [][NextRace]_vars

\* ------------------------------------------- a stream of distinguishable items
\* The length of the stream: long enough to overwrite every slot more than once.
MaxOffers == MaxAppends + MaxCap

\* Reservoir.append(item) for the next item of a stream whose items are all
\* different: the k-th item offered is the number k.
Res_Offer ==
    /\ supervised_memory.i < MaxOffers
    /\ LET item == supervised_memory.i + 1
       IN  /\ supervised_memory' \in AppendResults(supervised_memory, item)
           /\ supervised_appended' = Append(supervised_appended, item)
           /\ last' = Call("Reservoir.append", item, "none", <<>>,
                           RatioDenominators(supervised_memory, supervised_memory'))
    /\ UNCHANGED <<threads, replay_memory, replay_appended, variables>>

\* The reservoirs that offering the items 1 .. n in turn to an empty reservoir
\* of the given capacity can leave, over all draws of all the calls.
RECURSIVE ContentsAfter(_, _)
ContentsAfter(maxlen, n) ==
    IF n = 0 THEN { Reservoir_init(maxlen) }
    ELSE UNION { AppendResults(r, n) : r \in ContentsAfter(maxlen, n - 1) }

\* One reservoir of any capacity the constructor accepts.
InitReservoir ==
    /\ replay_memory = CircularBuffer_init(0)
    /\ \E maxlen \in 0 .. MaxCap : supervised_memory = Reservoir_init(maxlen)
    /\ replay_appended = <<>>
    /\ supervised_appended = <<>>
    /\ threads = <<>>
    /\ variables = InitialVariables([n \in SeqRange(NetworkScopes) |-> 0])
    /\ last = Call("__init__", <<>>, "none", <<>>, <<>>)

NextReservoir == Res_Offer \/ Res_Sample

SpecReservoir == InitReservoir /\ [][NextReservoir]_vars

\* ------------------------------------------------------------------- claims
\* C1 (recency FIFO): once more items were appended than the capacity, the
\* buffer holds exactly the last maxlen appended items in insertion order,
\* whatever sample calls came in between; and an append on a full buffer drops
\* exactly the oldest record and puts the new one last.
C1_Contents ==
    Len(replay_appended) > replay_memory.maxlen
        => replay_memory.buffer = LastN(replay_appended, replay_memory.maxlen)

C1_EvictsOldest ==
    (/\ Len(replay_appended') = Len(replay_appended) + 1
     /\ replay_memory.maxlen >= 1
     /\ Len(replay_memory.buffer) = replay_memory.maxlen)
        => /\ last'.op = "CircularBuffer.append"
           /\ replay_memory'.buffer = Append(Tail(replay_memory.buffer), last'.arg)

C1_RecencyFifo == [](C1_Contents) /\ [][C1_EvictsOldest]_vars

\* C1 witness: a buffer of capacity >= 2 that has evicted its first record and
\* holds the last maxlen appended items, the last call having been a sample.
C1_Witness ==
    /\ replay_memory.maxlen >= 2
    /\ Len(replay_appended) > replay_memory.maxlen
    /\ replay_memory.buffer = LastN(replay_appended, replay_memory.maxlen)
    /\ replay_memory.buffer[1] # replay_appended[1]
    /\ last.op = "CircularBuffer.sample"

\* C2 (bounded size): the size never exceeds the capacity, after k appends it
\* is min(k, maxlen), and no append raised.
C2_SizeBounded ==
    /\ CircularBuffer_len(replay_memory) <= replay_memory.maxlen
    /\ CircularBuffer_len(replay_memory) = Min(Len(replay_appended), replay_memory.maxlen)
    /\ last.op = "CircularBuffer.append" => last.err = "none"

\* C2 witness: a full buffer of capacity >= 1 after more appends than its capacity.
C2_Witness ==
    /\ replay_memory.maxlen >= 1
    /\ Len(replay_appended) > replay_memory.maxlen
    /\ CircularBuffer_len(replay_memory) = replay_memory.maxlen
    /\ last.op = "CircularBuffer.append"

C5_Step ==
    (/\ Len(supervised_appended') = Len(supervised_appended) + 1
     /\ Len(supervised_appended') > supervised_memory.maxlen)
        => /\ last'.op = "Reservoir.append"
           /\ Reservoir_len(supervised_memory') = supervised_memory.maxlen
           /\ \/ /\ last'.idx = <<>>
                 /\ supervised_memory'.reservoir = supervised_memory.reservoir
              \/ \E slot \in 1 .. supervised_memory.maxlen :
                    /\ last'.idx = <<slot>>
                    /\ supervised_memory'.reservoir =
                          [supervised_memory.reservoir EXCEPT ![slot] = last'.arg]

C5_AnySlot ==
    (/\ Len(supervised_appended) < MaxAppends
     /\ Len(supervised_appended) >= supervised_memory.maxlen)
        => \A slot \in 1 .. supervised_memory.maxlen :
              ENABLED (Res_Append /\ last'.idx = <<slot>>)

C5_TwoOutcomes == [](C5_AnySlot) /\ [][C5_Step]_vars

\* C5 witness: the last append overwrote the last slot of a reservoir of
\* capacity >= 2 with an item that differs from the records left in place.
C5_Witness ==
    /\ supervised_memory.maxlen >= 2
    /\ last.op = "Reservoir.append"
    /\ last.idx = <<supervised_memory.maxlen>>
    /\ supervised_memory.reservoir[supervised_memory.maxlen] = last.arg
    /\ supervised_memory.reservoir[1] # last.arg

\* The occupancy of the buffer the last call was made on.
LastOccupancy ==
    IF last.op = "CircularBuffer.sample" THEN CircularBuffer_len(replay_memory)
    ELSE Reservoir_len(supervised_memory)

\* The content of the buffer the last call was made on.
LastPopulation ==
    IF last.op = "CircularBuffer.sample" THEN replay_memory.buffer
    ELSE supervised_memory.reservoir

IsSample == last.op \in {"CircularBuffer.sample", "Reservoir.sample"}

\* C6 (insufficient data): on either buffer sample(n) with occupancy < n
\* raises (Python's ValueError, the code's insufficient-data error) and returns
\* nothing, never a shorter list; sample(occupancy) returns occupancy records.
C6_InsufficientData ==
    IsSample =>
        /\ LastOccupancy < last.arg => last.err = "ValueError" /\ last.ret = <<>>
        /\ LastOccupancy = last.arg => last.err = "none" /\ Len(last.ret) = last.arg

\* C6 witness: a sample(n) that failed on a non-empty buffer holding fewer than n.
C6_Witness ==
    /\ IsSample
    /\ LastOccupancy >= 1
    /\ LastOccupancy < last.arg
    /\ last.err = "ValueError"

\* C7 (without replacement): a sample(n) that returned gives exactly n records,
\* each the record at a position of the buffer, no position used twice.
C7_NoReplacement ==
    (IsSample /\ last.err = "none") =>
        /\ Len(last.ret) = last.arg
        /\ Len(last.idx) = last.arg
        /\ \A k \in 1 .. Len(last.idx) :
              /\ last.idx[k] \in 1 .. LastOccupancy
              /\ last.ret[k] = LastPopulation[last.idx[k]]
        /\ \A a, b \in 1 .. Len(last.idx) : a # b => last.idx[a] # last.idx[b]

\* C7 witness: a sample(2) that returned two records from a reservoir.
C7_Witness ==
    /\ last.op = "Reservoir.sample"
    /\ last.err = "none"
    /\ last.arg = 2
    /\ Len(last.ret) = 2

\* C8 (sample is read-only): a sample call, returning or raising, leaves the
\* recency buffer's records and order unchanged, and the reservoir's records,
\* slots and counter i unchanged.
C8_Step ==
    /\ last'.op = "CircularBuffer.sample" => replay_memory' = replay_memory
    /\ last'.op = "Reservoir.sample" => supervised_memory' = supervised_memory

C8_SampleReadOnly == [][C8_Step]_vars

\* C8 witness: a sample that returned two records from a recency buffer.
C8_Witness ==
    /\ last.op = "CircularBuffer.sample"
    /\ last.err = "none"
    /\ Len(last.ret) = 2
    /\ CircularBuffer_len(replay_memory) = 2

\* C9 (capacity >= 1): no buffer with capacity below 1 exists.
C9_CapacityAtLeastOne ==
    /\ replay_memory.maxlen >= 1
    /\ supervised_memory.maxlen >= 1

\* The current-Q variable that corresponds to a target-Q variable: the same
\* layer and variable under the other network's scope.
Corresponding(name) == [name EXCEPT ![2] = "current_q"]

TargetEqualsCurrent ==
    \A name \in SeqRange(NetworkVariables("target_q")) :
        variables[name] = variables[Corresponding(name)]

\* C10 (target sync exactness): right after update_target_network every
\* target-network variable equals the corresponding current-Q variable (and so
\* both networks predict the same values for every state).
C10_TargetSyncExact ==
    last.op = "update_target_network" => TargetEqualsCurrent

\* The names of the variables of each network.
NetworkNames == [scope \in SeqRange(NetworkScopes) |-> SeqRange(networks[scope])]

\* A step leaves every variable of the network as it was.
NetworkUnchanged(scope) ==
    \A name \in NetworkNames[scope] : variables'[name] = variables[name]

\* C11 (target frame): every call other than update_target_network leaves the
\* target network's variables as they were.
C11_Step ==
    last'.op # "update_target_network" => NetworkUnchanged("target_q")

C11_TargetOnlyBySync == [][C11_Step]_vars

\* C11 witness: a value-training step that ran on a minibatch and left the
\* current Q network different from the target network.
C11_Witness ==
    /\ last.op = "train_q_network"
    /\ last.err = "none"
    /\ last.ret.minibatch # <<>>
    /\ ~TargetEqualsCurrent

\* C12 (terminal masking): in a value-training step every sampled transition is
\* regressed toward its reward alone when it is terminal, and toward its reward
\* plus the largest value the target network gives any action in its next state
\* when it is not.
C12_Step ==
    (last'.op = "train_q_network" /\ last'.err = "none")
        => \A k \in 1 .. Len(last'.ret.minibatch) :
              LET d == last'.ret.minibatch[k]
                  row == OutputRow(NetworkOutput(variables, "target_q", d.next_state))
              IN  IF d.terminal
                  THEN last'.ret.next_q[k] = d.reward
                  ELSE \E a \in 1 .. ActionDim :
                          /\ last'.ret.next_q[k] = d.reward + row[a]
                          /\ \A b \in 1 .. ActionDim : row[b] <= row[a]

C12_TerminalMasking == [][C12_Step]_vars

\* C12 witness: a value-training step whose minibatch held a terminal transition
\* with reward 5, regressed toward exactly 5, and a non-terminal transition
\* regressed toward more than its reward.
C12_Witness ==
    /\ last.op = "train_q_network"
    /\ last.err = "none"
    /\ \E k \in 1 .. Len(last.ret.minibatch) :
          /\ last.ret.minibatch[k].terminal
          /\ last.ret.minibatch[k].reward = 5
          /\ last.ret.next_q[k] = 5
    /\ \E k \in 1 .. Len(last.ret.minibatch) :
          /\ ~last.ret.minibatch[k].terminal
          /\ last.ret.next_q[k] > last.ret.minibatch[k].reward

\* C13 (insufficient data): train_q_network asked for more transitions than the
\* replay memory holds, and train_policy_network asked for more pairs than the
\* supervised memory holds, end with the sampling error, and leave both
\* memories and every network variable exactly as they were.
C13_Step ==
    (\/ /\ last'.op = "train_q_network"
        /\ last'.arg > CircularBuffer_len(replay_memory)
     \/ /\ last'.op = "train_policy_network"
        /\ last'.arg > Reservoir_len(supervised_memory))
        => /\ last'.err = "ValueError"
           /\ replay_memory' = replay_memory
           /\ supervised_memory' = supervised_memory
           /\ variables' = variables

C13_InsufficientData == [][C13_Step]_vars

\* C13 witness: train_q_network was asked for two transitions while the replay
\* memory of capacity two held one, and raised.
C13_Witness ==
    /\ last.op = "train_q_network"
    /\ last.arg = 2
    /\ replay_memory.maxlen = 2
    /\ CircularBuffer_len(replay_memory) = 1
    /\ Reservoir_len(supervised_memory) >= 1
    /\ last.err = "ValueError"

\* C14 (call order): append_replay_memory leaves the replay memory holding the
\* last min(maxlen, old size + k) items of the old contents followed by the k
\* transitions in call order.  append_supervised_memory advances the
\* reservoir's counter by exactly the number of pairs and offers them in call
\* order: the pairs arriving while there is room fill the next slots in order,
\* and a slot can otherwise differ from before only by holding a pair that
\* arrived once the reservoir was full.
C14_Replay ==
    last'.op = "append_replay_memory"
        => replay_memory'.buffer =
              LastN(replay_memory.buffer \o last'.arg,
                    Min(replay_memory.maxlen,
                        Len(replay_memory.buffer) + Len(last'.arg)))

C14_Supervised ==
    last'.op = "append_supervised_memory"
        => LET old == supervised_memory.reservoir
               new == supervised_memory'.reservoir
               pairs == last'.arg
               room == supervised_memory.maxlen - Len(old)
               late == { pairs[j] : j \in (room + 1) .. Len(pairs) }
           IN  /\ supervised_memory'.i = supervised_memory.i + Len(pairs)
               /\ Len(new) = Min(supervised_memory.maxlen, Len(old) + Len(pairs))
               /\ \A k \in 1 .. Len(new) :
                     new[k] \in late \cup
                         { IF k <= Len(old) THEN old[k] ELSE pairs[k - Len(old)] }

C14_CallOrder == [][C14_Replay /\ C14_Supervised]_vars

\* C14 witness: two different transitions were recorded in one call into a
\* replay memory of capacity one, which holds the second, after the supervised
\* memory of capacity two took two different pairs in one call.
C14_Witness ==
    /\ last.op = "append_replay_memory"
    /\ Len(last.arg) = 2
    /\ last.arg[1] # last.arg[2]
    /\ replay_memory.maxlen = 1
    /\ replay_memory.buffer = <<last.arg[2]>>
    /\ supervised_memory.i = 2
    /\ Len(supervised_memory.reservoir) = 2
    /\ supervised_memory.reservoir[1] # supervised_memory.reservoir[2]

\* C15 (strategy): a get_strategy call that returns gives a dict with exactly
\* the keys of the states it was handed, each key holding the policy network's
\* output for that key's state vector, whatever the order in which the dict was
\* walked; the call changes neither memory and no network variable.
C15_Step ==
    (last'.op = "get_strategy" /\ last'.err = "none")
        => LET states == last'.arg
               strategy == last'.ret[1]
           IN  /\ DOMAIN strategy = DOMAIN states
               /\ \A key \in DOMAIN states :
                     /\ DOMAIN strategy[key] = 0 .. (ActionDim - 1)
                     /\ \A i \in 0 .. (ActionDim - 1) :
                           strategy[key][i] =
                               OutputUnit(NetworkOutput(variables, "policy",
                                                        states[key].state), i)
               /\ replay_memory' = replay_memory
               /\ supervised_memory' = supervised_memory
               /\ variables' = variables

C16_Count == supervised_memory.i = Len(supervised_appended)

C16_Step ==
    /\ last'.op = "Reservoir.append"
          => /\ supervised_memory'.i = supervised_memory.i + 1
             /\ \A k \in 1 .. Len(last'.ret) : last'.ret[k] >= 1
    /\ last'.op # "Reservoir.append"
          => supervised_memory'.i = supervised_memory.i

C16_Counter == [](C16_Count) /\ [][C16_Step]_vars

\* C16 witness: the first append to a reservoir without room (capacity 0) divided
\* by i = 1, discarded its item and was counted.
C16_Witness ==
    /\ supervised_memory.maxlen = 0
    /\ supervised_memory.i = 1
    /\ Len(supervised_appended) = 1
    /\ supervised_memory.reservoir = <<>>
    /\ last.op = "Reservoir.append"
    /\ last.ret = <<1>>

\* C17 (racing appends): with two append calls interleaved statement by
\* statement, the reservoir never holds more items than its capacity, and its
\* counter equals the number of appends that have counted themselves.
C17_RaceAtomic ==
    /\ Len(supervised_memory.reservoir) <= supervised_memory.maxlen
    /\ supervised_memory.i = Len(supervised_appended)

\* The sets of min(i, maxlen) of the first i items of the stream.
ItemSubsets(maxlen, i) ==
    { S \in SUBSET (1 .. i) : Cardinality(S) = Min(i, maxlen) }

\* C18 (reachable contents): for a reservoir of capacity >= 1 offered i different
\* items, the stored items are always min(i, maxlen) different items out of the
\* i offered, and every set of min(i, maxlen) of the offered items is the content
\* of the reservoir for some draws.
C18_OnlySubsets ==
    supervised_memory.maxlen >= 1
        => /\ SeqRange(supervised_memory.reservoir)
                 \in ItemSubsets(supervised_memory.maxlen, supervised_memory.i)
           /\ Cardinality(SeqRange(supervised_memory.reservoir))
                 = Len(supervised_memory.reservoir)

C18_EverySubset ==
    supervised_memory.maxlen >= 1
        => LET contents ==
                   { SeqRange(r.reservoir) :
                       r \in ContentsAfter(supervised_memory.maxlen, supervised_memory.i) }
           IN  \A S \in ItemSubsets(supervised_memory.maxlen, supervised_memory.i) :
                  S \in contents

C18_ReachableContents == C18_OnlySubsets /\ C18_EverySubset

\* C18 witness: a reservoir of capacity two was offered five items and holds
\* the fifth and the third, both of its first items having been overwritten; a
\* sample of both followed.
C18_Witness ==
    /\ supervised_memory.maxlen = 2
    /\ supervised_memory.i = 5
    /\ supervised_appended = <<1, 2, 3, 4, 5>>
    /\ supervised_memory.reservoir = <<5, 3>>
    /\ last.op = "Reservoir.sample"
    /\ last.err = "none"
    /\ Len(last.ret) = 2

\* C19 (own resources): append_replay_memory leaves the supervised memory
\* (contents and counter) as it was and append_supervised_memory leaves the
\* replay memory as it was; a train_q_network call that returns changes nothing
\* but current Q variables, and a train_policy_network call that returns
\* nothing but policy variables.
C19_Step ==
    /\ last'.op = "append_replay_memory"
          => supervised_memory' = supervised_memory /\ variables' = variables
    /\ last'.op = "append_supervised_memory"
          => replay_memory' = replay_memory /\ variables' = variables
    /\ (last'.op = "train_q_network" /\ last'.err = "none")
          => /\ replay_memory' = replay_memory
             /\ supervised_memory' = supervised_memory
             /\ NetworkUnchanged("target_q")
             /\ NetworkUnchanged("policy")
    /\ (last'.op = "train_policy_network" /\ last'.err = "none")
          => /\ replay_memory' = replay_memory
             /\ supervised_memory' = supervised_memory
             /\ NetworkUnchanged("current_q")
             /\ NetworkUnchanged("target_q")

C19_OwnResources == [][C19_Step]_vars

\* C19 witness: a policy-training step ran on a minibatch of two pairs while the
\* replay memory held a transition, and left the policy variables different
\* from those of both Q networks.
C19_Witness ==
    /\ last.op = "train_policy_network"
    /\ last.err = "none"
    /\ Len(last.ret) = 2
    /\ CircularBuffer_len(replay_memory) >= 1
    /\ \A k \in 1 .. Len(networks["policy"]) :
          /\ variables[networks["policy"][k]] # variables[networks["current_q"][k]]
          /\ variables[networks["policy"][k]] # variables[networks["target_q"][k]]

====
